---------------------------- MODULE Spec2Model ----------------------------
(***************************************************************************)
(* Model of the LSEG stock predictor (src/main.py, src/predictor.py).      *)
(*                                                                         *)
(* Representation                                                          *)
(*   - a price (column "Value") is a rational number with denominator      *)
(*     ValueScale, stored as its numerator: the two divisions of           *)
(*     BasicPredictor.predict ( /2 and /4 ) are exact on whole prices;     *)
(*   - a timestamp string "dd-mm-yyyy" is the record [d, m, y] of its      *)
(*     three fields; a datetime is its proleptic Gregorian ordinal, as in  *)
(*     CPython's datetime;                                                 *)
(*   - a string that the code searches or rewrites (a file name, a         *)
(*     directory name, a path) is the sequence of its tokens, "/" being    *)
(*     the token of os.sep; the tokens are chosen so that no occurrence of *)
(*     a searched text straddles two of them.                              *)
(***************************************************************************)
EXTENDS Integers, Sequences, FiniteSets, TLC

VARIABLES
    args,           \* the parsed command line: input_file_count, data_directory_path
    fs,             \* the data root: files in enumeration order, each [path, rows]
    pc,             \* position of app()
    csv_list,       \* the list app() iterates over
    idx,            \* index in csv_list of the file in hand (0: none yet)
    stock_data_df,  \* the frame read from the file in hand
    status,         \* progress of each file of csv_list
    exc,            \* the exception that left app(), "" when none
    run,            \* number of the run of app() over the data root
    TIMESTAMP,      \* the run's timestamp, taken from the clock when main.py is loaded
    written,        \* paths written by generate_basic_prediction, over all runs
    touched,        \* file operations of the current run
    log,            \* error-level log records of the current run
    call,           \* a call of one function on its own: [fn, arg]
    ret             \* what that call returned, NoRet before it returns

dvars == <<args, fs, pc, csv_list, idx, stock_data_df, status, exc, run, TIMESTAMP,
           written, touched, log>>
fvars == <<call, ret>>
vars == <<args, fs, pc, csv_list, idx, stock_data_df, status, exc, run, TIMESTAMP,
          written, touched, log, call, ret>>

----------------------------------------------------------------------------
(* Program constants *)

PREDICTION_DATA_POINTS == 10
INPUT_FILE_COUNT_DEFAULT == 2

\* The forecast has three values: predict appends four and pops one.
ForecastLen == 3

\* Denominator of a stored price: predict divides by 2, then by 4.
ValueScale == 2 * 4

----------------------------------------------------------------------------
(* Bounds *)

MaxVal == 1        \* whole prices of an enumerated window are 0..MaxVal
MaxExtra == 2      \* a series has at most PREDICTION_DATA_POINTS + MaxExtra rows
MaxRuns == 2       \* runs of app() over the same data root
MaxFiles == 2      \* files in the data root before the first run
MaxCsv == 4        \* paths in a list handed to _filter_csv_list on its own
YearSpan == 1      \* timestamps lie in BaseYear .. BaseYear + YearSpan

----------------------------------------------------------------------------
(* Sequences *)

Range(s) == {s[i] : i \in 1..Len(s)}

Min(a, b) == IF a < b THEN a ELSE b

\* s[:n] of Python for n >= 0
Prefix(s, n) == SubSeq(s, 1, Min(n, Len(s)))

RECURSIVE Concat(_)
\* itertools.chain.from_iterable over a sequence of sequences
Concat(ss) == IF ss = <<>> THEN <<>> ELSE Head(ss) \o Concat(Tail(ss))


\* x in s, for a tokenised string s and a token x
Contains(s, x) == \E i \in 1..Len(s) : s[i] = x

\* Series.iloc[i] / DataFrame.iloc[i] for a position i, negative from the end
iloc(s, i) == IF i >= 0 THEN s[i + 1] ELSE s[Len(s) + 1 + i]

\* DataFrame.iloc[a:b] for 0 <= a <= b: the slice is cut at the end of the frame
iloc_slice(s, a, b) == SubSeq(s, a + 1, Min(b, Len(s)))

----------------------------------------------------------------------------
(* Calendar: CPython's datetime, which strptime, timedelta and strftime use *)

BaseYear == 2023

is_leap(year) == year % 4 = 0 /\ (year % 100 # 0 \/ year % 400 = 0)

DAYS_IN_MONTH == <<31, 28, 31, 30, 31, 30, 31, 31, 30, 31, 30, 31>>

RECURSIVE DaysBefore(_)
\* _DAYS_BEFORE_MONTH[month]
DaysBefore(month) ==
    IF month = 1 THEN 0 ELSE DaysBefore(month - 1) + DAYS_IN_MONTH[month - 1]

days_before_year(year) ==
    LET y == year - 1 IN y * 365 + (y \div 4) - (y \div 100) + (y \div 400)

days_in_month(year, month) ==
    IF month = 2 /\ is_leap(year) THEN 29 ELSE DAYS_IN_MONTH[month]

days_before_month(year, month) ==
    DaysBefore(month) + (IF month > 2 /\ is_leap(year) THEN 1 ELSE 0)

ymd2ord(year, month, day) ==
    days_before_year(year) + days_before_month(year, month) + day

DI400Y == days_before_year(401)
DI100Y == days_before_year(101)
DI4Y == days_before_year(5)

ord2ymd(ordinal) ==
    LET n0 == ordinal - 1
        n400 == n0 \div DI400Y
        na == n0 % DI400Y
        n100 == na \div DI100Y
        nb == na % DI100Y
        n4 == nb \div DI4Y
        nc == nb % DI4Y
        n1 == nc \div 365
        n == nc % 365
        year == n400 * 400 + 1 + n100 * 100 + n4 * 4 + n1
    IN  IF n1 = 4 \/ n100 = 4
        THEN [year |-> year - 1, month |-> 12, day |-> 31]
        ELSE LET leapyear == n1 = 3 /\ (n4 # 24 \/ n100 = 3)
                 leap == IF leapyear THEN 1 ELSE 0
                 m0 == (n + 50) \div 32
                 p0 == DaysBefore(m0) + (IF m0 > 2 THEN leap ELSE 0)
                 month == IF p0 > n THEN m0 - 1 ELSE m0
                 preceding ==
                     IF p0 > n
                     THEN p0 - (DAYS_IN_MONTH[month]
                                + (IF month = 2 THEN leap ELSE 0))
                     ELSE p0
             IN  [year |-> year, month |-> month, day |-> n - preceding + 1]

\* Whether a timestamp string matches DATE_FORMAT and names a day of the calendar
ValidTimestamp(ts) ==
    /\ ts.y >= 1
    /\ ts.m \in 1..12
    /\ ts.d >= 1
    /\ ts.d <= days_in_month(ts.y, ts.m)

\* datetime.strptime(ts, DATE_FORMAT), for a valid ts
strptime(ts) == [year |-> ts.y, month |-> ts.m, day |-> ts.d]

\* timedelta_add with the days added to the day field alone
timedelta_add_day_field(dt, days) == [dt EXCEPT !.day = dt.day + days]

\* dt + timedelta(days=days)
timedelta_add(dt, days) == ord2ymd(ymd2ord(dt.year, dt.month, dt.day) + days)

\* dt.strftime(DATE_FORMAT)
strftime(dt) == [d |-> dt.day, m |-> dt.month, y |-> dt.year]

----------------------------------------------------------------------------
(* src/predictor.py *)

RECURSIVE InsertDesc(_, _)
InsertDesc(x, s) ==
    IF s = <<>> THEN <<x>>
    ELSE IF x >= Head(s) THEN <<x>> \o s
    ELSE <<Head(s)>> \o InsertDesc(x, Tail(s))

RECURSIVE InsertAsc(_, _)
InsertAsc(x, s) ==
    IF s = <<>> THEN <<x>>
    ELSE IF x <= Head(s) THEN <<x>> \o s
    ELSE <<Head(s)>> \o InsertAsc(x, Tail(s))

RECURSIVE sort_values_ascending(_)
\* sort_values without ascending=False
sort_values_ascending(s) ==
    IF s = <<>> THEN <<>> ELSE InsertAsc(Head(s), sort_values_ascending(Tail(s)))

RECURSIVE sort_values(_)
\* Series.sort_values(ascending=False)
sort_values(s) ==
    IF s = <<>> THEN <<>> ELSE InsertDesc(Head(s), sort_values(Tail(s)))

\* Python's x / k on prices; exact on the numerators the model holds
TrueDiv(x, k) == x \div k

\* BasicPredictor.predict
predict(input_data_df) ==
    LET n1 == <<iloc(input_data_df, -1)>>
        second_hightest_value == iloc(sort_values(input_data_df), 1)
        n2 == Append(n1, second_hightest_value)
        difference1 == n2[2] - n2[1]
        n3 == Append(n2, n2[2] + TrueDiv(difference1, 2))
        difference2 == n3[3] - n3[2]
        n4 == Append(n3, n3[3] + TrueDiv(difference2, 4))
    IN  Tail(n4)

----------------------------------------------------------------------------
(* src/main.py: the two requirements *)

\* random.randrange(start, stop): the values it can return; none: ValueError
randrange(start, stop) == start..(stop - 1)

\* The positions extract_stock_data_subset can draw
SubsetPositions(frame) ==
    randrange(0, Len(frame) - PREDICTION_DATA_POINTS)

\* extract_stock_data_subset once random_df_position is drawn
extract_stock_data_subset(frame, random_df_position) ==
    iloc_slice(frame, random_df_position,
               random_df_position + PREDICTION_DATA_POINTS)

RECURSIVE DropDuplicates(_)
DropDuplicates(s) ==
    IF s = <<>> THEN <<>>
    ELSE LET front == DropDuplicates(SubSeq(s, 1, Len(s) - 1))
         IN  IF Contains(front, s[Len(s)]) THEN front
             ELSE Append(front, s[Len(s)])

\* concat followed by drop_duplicates()
concat_drop_duplicates(a, b) == DropDuplicates(a \o b)

\* pd.concat([a, b], axis=0)
concat(a, b) == a \o b

column(df, name) == [i \in 1..Len(df) |-> df[i][name]]

prepare_prediction_df(stock_data_subset, prediction) ==
    LET prediction_length == Len(prediction)
        last_timestamp == iloc(column(stock_data_subset, "Timestamp"), -1)
        last_timestamp_dt == strptime(last_timestamp)
        new_timestamps ==
            [k \in 1..prediction_length |->
                strftime(timedelta_add(last_timestamp_dt, (k - 1) + 1))]
        new_tickers ==
            [k \in 1..prediction_length |->
                iloc(column(stock_data_subset, "Ticker"), 0)]
        prediction_df ==
            [k \in 1..prediction_length |->
                [Ticker |-> new_tickers[k],
                 Timestamp |-> new_timestamps[k],
                 Value |-> prediction[k]]]
    IN  concat(stock_data_subset, prediction_df)

----------------------------------------------------------------------------
(* src/main.py: file selection *)

sep == "/"

RECURSIVE split(_, _)
\* str.split(sep)
split(s, x) ==
    IF ~Contains(s, x) THEN <<s>>
    ELSE LET i == CHOOSE j \in 1..Len(s) :
                      s[j] = x /\ \A k \in 1..(j - 1) : s[k] # x
         IN  <<SubSeq(s, 1, i - 1)>> \o split(SubSeq(s, i + 1, Len(s)), x)

RECURSIVE replace(_, _, _)
\* str.replace(old, new), old a single token
replace(s, old, new) ==
    IF s = <<>> THEN <<>>
    ELSE (IF Head(s) = old THEN new ELSE <<Head(s)>>)
         \o replace(Tail(s), old, new)

\* csv_filename.startswith("Prediction_")
is_prediction_file_prefix(csv_filename) ==
    csv_filename # <<>> /\ Head(csv_filename) = "Prediction_"

\* "Prediction_" in csv_filename
is_prediction_file(csv_filename) == Contains(csv_filename, "Prediction_")

\* _exchange_stock_dict[key].append(x): a defaultdict(list), as the sequence
\* of its (key, list) items in insertion order
DictAppend(dict, key, x) ==
    IF \E i \in 1..Len(dict) : dict[i][1] = key
    THEN [i \in 1..Len(dict) |->
             IF dict[i][1] = key THEN <<key, Append(dict[i][2], x)>> ELSE dict[i]]
    ELSE Append(dict, <<key, <<x>>>>)

\* _exchange_stock_dict[_exchange][-input_file_count:]
truncate_last(lst, input_file_count) ==
    SubSeq(lst, Len(lst) - Min(input_file_count, Len(lst)) + 1, Len(lst))

\* _exchange_stock_dict[_exchange][:input_file_count]
truncate(lst, input_file_count) == Prefix(lst, input_file_count)

RECURSIVE GroupByExchange(_, _, _)
\* the first loop of _filter_csv_list
GroupByExchange(paths, dd_length, dict) ==
    IF paths = <<>> THEN dict
    ELSE LET csv == Head(paths)
             path_within_dd == SubSeq(csv, dd_length + 1, Len(csv))
             path_parts == split(path_within_dd, sep)
         IN  IF Len(path_parts) # 2
             THEN GroupByExchange(Tail(paths), dd_length, dict)
             ELSE LET exchange == path_parts[1]
                      csv_filename == path_parts[2]
                  IN  IF is_prediction_file(csv_filename)
                      THEN GroupByExchange(Tail(paths), dd_length, dict)
                      ELSE GroupByExchange(Tail(paths), dd_length,
                                           DictAppend(dict, exchange, csv))

_filter_csv_list(paths, data_directory, input_file_count) ==
    LET dd_length == Len(data_directory)
        grouped == GroupByExchange(paths, dd_length, <<>>)
        capped == [i \in 1..Len(grouped) |->
                      truncate(grouped[i][2], input_file_count)]
    IN  Concat(capped)

----------------------------------------------------------------------------
(* Inputs *)

Price(whole) == whole * ValueScale

Tickers == {"AAA", "BBB"}

FirstDay == ymd2ord(BaseYear, 1, 1)
LastDay == ymd2ord(BaseYear + YearSpan, 12, 31)

\* A series of len rows on consecutive days from ordinal first, or (flat) of
\* len equal rows
Series(ticker, len, first, base, flat) ==
    [i \in 1..len |->
        [Ticker |-> ticker,
         Timestamp |-> strftime(ord2ymd(IF flat THEN first ELSE first + i - 1)),
         Value |-> Price(IF flat THEN base ELSE base + ((i * i) % 7))]]

MaxRows == PREDICTION_DATA_POINTS + MaxExtra

ScenarioTies == <<10, 12, 11, 13, 9, 14, 15, 8, 20, 18>>
ScenarioRamp == <<1, 2, 3, 4, 5, 6, 7, 8, 9, 10>>
ScenarioTwoMax == <<3, 7, 1, 7, 2, 0, 5, 4, 6, 2>>

Scaled(ws) == [i \in 1..Len(ws) |-> Price(ws[i])]

PredictInputs ==
    {Scaled(w) : w \in [1..PREDICTION_DATA_POINTS -> 0..MaxVal]}
    \cup {Scaled(ScenarioTies), Scaled(ScenarioRamp), Scaled(ScenarioTwoMax)}

SampleInputs ==
    {Series(t, len, first, base, FALSE) :
        t \in Tickers, len \in 0..MaxRows,
        first \in {FirstDay, FirstDay + 58, LastDay - MaxRows}, base \in 0..MaxVal}

AssembleInputs ==
    {[window |-> Series(t, PREDICTION_DATA_POINTS,
                        IF flat THEN last ELSE last - PREDICTION_DATA_POINTS + 1,
                        0, flat),
      forecast |-> f] :
        t \in Tickers, last \in FirstDay..LastDay, flat \in BOOLEAN,
        f \in {<<Price(6), Price(6), Price(6)>>, <<Price(9), 68, 67>>}}

\* DATA_DIRECTORY_DEFAULT, "data/"
data == <<"data", sep>>

CsvName(stem) == <<stem, ".csv">>

OutName(stem, stamp) == <<stem, "_Basic", "Prediction_", stamp, ".csv">>

SelectPaths ==
    {data \o <<e, sep>> \o CsvName(n) : e \in {"A", "B"}, n \in {"s1", "s2", "s3"}}
    \cup {data \o <<"A", sep>> \o OutName("s1", "1"),
          data \o CsvName("top"),
          data \o <<"A", sep, "old", sep>> \o CsvName("s1")}

RECURSIVE DistinctSeqs(_, _)
\* the sequences of at most n distinct elements of S
DistinctSeqs(S, n) ==
    IF n = 0 THEN {<<>>}
    ELSE LET shorter == DistinctSeqs(S, n - 1)
         IN  shorter \cup
                 UNION {{Append(q, x) : x \in S \ Range(q)} : q \in shorter}

----------------------------------------------------------------------------
(* src/main.py: app() over a data root *)

missing == <<"missing", sep>>

\* The state of a call of one function on its own
Pending == [state |-> "pending"]
Returned(v) == [state |-> "returned", val |-> v]
Raised(e) == [state |-> "raised", exc |-> e]

\* The working directory holds the directory data/ and the files of fs.
IsPrefix(d, path) == Len(d) <= Len(path) /\ SubSeq(path, 1, Len(d)) = d

\* os.path.exists of a directory path that ends in os.sep; False for ""
path_exists(files, d) ==
    /\ d # <<>>
    /\ \/ d = data
       \/ \E i \in 1..Len(files) : IsPrefix(d, files[i].path)

\* _validate_arguments without the check of the data directory
_validate_arguments_count_only(a, files) ==
    IF a.input_file_count < 1 \/ a.input_file_count > 2
    THEN [valid |-> FALSE, message |-> "Invalid file count"]
    ELSE [valid |-> TRUE, message |-> "Arguments are valid"]

\* _validate_arguments: (valid, message)
_validate_arguments(a, files) ==
    IF a.input_file_count < 1 \/ a.input_file_count > 2
    THEN [valid |-> FALSE, message |-> "Invalid file count"]
    ELSE IF a.data_directory_path # <<>>
            /\ ~path_exists(files, a.data_directory_path)
    THEN [valid |-> FALSE, message |-> "Data directory not found"]
    ELSE [valid |-> TRUE, message |-> "Arguments are valid"]

\* glob.iglob(f"{data_directory}**/*.csv", recursive=True), for a
\* data_directory that is empty or ends in os.sep
_read_csv_files_from_data(files, data_directory) ==
    LET Matches(f) == /\ IsPrefix(data_directory, f.path)
                      /\ f.path[Len(f.path)] = ".csv"
        found == SelectSeq(files, Matches)
    IN  [i \in 1..Len(found) |-> found[i].path]

\* csv_path.replace('.csv', f'_BasicPrediction_{TIMESTAMP}.csv')
bp_csv_path(csv_path, stamp) ==
    replace(csv_path, ".csv",
            <<"_Basic", "Prediction_", ToString(stamp), ".csv">>)

FileAt(files, path) == CHOOSE i \in 1..Len(files) : files[i].path = path

\* The header line to_csv writes; read back without a header it is a row
\* whose timestamp is no date
HeaderRow == [Ticker |-> "Ticker", Timestamp |-> [d |-> 0, m |-> 0, y |-> 0],
              Value |-> 0]

\* result_df.to_csv(path, index=False): the data roots it can leave. An
\* existing file is overwritten in place, a new one is enumerated before or
\* after the files there are.
to_csv(files, path, result_df) ==
    LET file == [path |-> path, rows |-> <<HeaderRow>> \o result_df]
    IN  IF \E i \in 1..Len(files) : files[i].path = path
        THEN {[files EXCEPT ![FileAt(files, path)] = file]}
        ELSE {SubSeq(files, 1, k) \o <<file>> \o SubSeq(files, k + 1, Len(files)) :
                  k \in {0, Len(files)}}

\* pd.read_csv and pd.to_datetime(...).dt.strftime(DATE_FORMAT), lines 213-220
ParseFails(rows) == \E i \in 1..Len(rows) : ~ValidTimestamp(rows[i].Timestamp)

Normalised(rows) ==
    [i \in 1..Len(rows) |->
        [rows[i] EXCEPT !.Timestamp = strftime(strptime(rows[i].Timestamp))]]

DriverDirs == {data, missing, <<>>}

DriverPaths ==
    {data \o <<"A", sep>> \o CsvName("s1"),
     data \o <<"A", sep>> \o CsvName("s2"),
     data \o <<"B", sep>> \o <<"s1", ".csv", ".csv">>,
     data \o CsvName("top")}

\* A file whose first timestamp is 30 February
Malformed ==
    [Series("AAA", PREDICTION_DATA_POINTS + 1, FirstDay, 0, FALSE)
        EXCEPT ![1].Timestamp = [d |-> 30, m |-> 2, y |-> BaseYear]]

\* Files of 9, 10 and 11 rows, and the malformed one
DriverRows ==
    {Series("AAA", len, LastDay - MaxRows, 0, FALSE) :
        len \in (PREDICTION_DATA_POINTS - 1)..(PREDICTION_DATA_POINTS + 1)}
    \cup {Malformed}

DriverFiles == {[path |-> q, rows |-> r] : q \in DriverPaths, r \in DriverRows}

DistinctPaths(files) ==
    \A i, j \in 1..Len(files) : i # j => files[i].path # files[j].path

Init ==
    /\ args \in [input_file_count : 0..3, data_directory_path : DriverDirs]
    /\ fs \in {q \in DistinctSeqs(DriverFiles, MaxFiles) : DistinctPaths(q)}
    /\ pc = "start"
    /\ csv_list = <<>>
    /\ idx = 0
    /\ stock_data_df = <<>>
    /\ status = <<>>
    /\ exc = ""
    /\ run = 1
    /\ TIMESTAMP = 1
    /\ written = {}
    /\ touched = {}
    /\ log = <<>>
    /\ call = [fn |-> "app"]
    /\ ret = Pending

\* lines 188-194
ValidateArguments ==
    /\ pc = "start"
    /\ LET checked == _validate_arguments(args, fs)
       IN  IF ~checked.valid
           THEN /\ log' = Append(log, checked.message)
                /\ pc' = "aborted"
           ELSE /\ log' = log
                /\ pc' = "select"
    /\ UNCHANGED <<args, fs, csv_list, idx, stock_data_df, status, exc, run,
                   TIMESTAMP, written, touched, fvars>>

\* lines 196-209
SelectFiles ==
    /\ pc = "select"
    /\ csv_list' = _filter_csv_list(
                       _read_csv_files_from_data(fs, args.data_directory_path),
                       args.data_directory_path, args.input_file_count)
    /\ status' = [i \in 1..Len(csv_list') |-> "Selected"]
    /\ touched' = touched \cup {[op |-> "enumerate", path |-> args.data_directory_path]}
    /\ idx' = 0
    /\ pc' = "loop"
    /\ UNCHANGED <<args, fs, stock_data_df, exc, run, TIMESTAMP, written, log,
                   fvars>>

\* line 211: the next file, or the end of app()
LoopNext ==
    /\ pc = "loop"
    /\ IF idx < Len(csv_list)
       THEN idx' = idx + 1 /\ pc' = "read"
       ELSE idx' = idx /\ pc' = "done"
    /\ UNCHANGED <<args, fs, csv_list, stock_data_df, status, exc, run,
                   TIMESTAMP, written, touched, log, fvars>>

\* lines 212-220
ReadCsv ==
    /\ pc = "read"
    /\ LET rows == fs[FileAt(fs, csv_list[idx])].rows
       IN  IF ParseFails(rows)
           THEN /\ exc' = "ValueError"
                /\ pc' = "crashed"
                /\ UNCHANGED <<stock_data_df, status>>
           ELSE /\ stock_data_df' = Normalised(rows)
                /\ status' = [status EXCEPT ![idx] = "Loaded"]
                /\ pc' = "check"
                /\ exc' = exc
    /\ touched' = touched \cup {[op |-> "read", path |-> csv_list[idx]]}
    /\ UNCHANGED <<args, fs, csv_list, idx, run, TIMESTAMP, written, log, fvars>>

\* lines 222-224
CheckSize ==
    /\ pc = "check"
    /\ LET stock_data_size == Len(stock_data_df)
       IN  IF stock_data_size < PREDICTION_DATA_POINTS
           THEN log' = Append(log, "CSV File doesn't have enough data points")
           ELSE log' = log
    /\ pc' = "predict"
    /\ UNCHANGED <<args, fs, csv_list, idx, stock_data_df, status, exc, run,
                   TIMESTAMP, written, touched, fvars>>

\* line 226: generate_basic_prediction(_csv, stock_data_df), lines 129-142
GenerateBasicPrediction ==
    /\ pc = "predict"
    /\ IF SubsetPositions(stock_data_df) = {}
       THEN /\ exc' = "ValueError"
            /\ pc' = "crashed"
            /\ UNCHANGED <<fs, status, written, touched>>
       ELSE \E random_df_position \in SubsetPositions(stock_data_df) :
                LET stock_data_subset ==
                        extract_stock_data_subset(stock_data_df, random_df_position)
                    prediction == predict(column(stock_data_subset, "Value"))
                    result_df == prepare_prediction_df(stock_data_subset, prediction)
                    path == bp_csv_path(csv_list[idx], TIMESTAMP)
                IN  /\ fs' \in to_csv(fs, path, result_df)
                    /\ written' = written \cup {path}
                    /\ touched' = touched \cup {[op |-> "write", path |-> path]}
                    /\ status' = [status EXCEPT ![idx] = "Persisted"]
                    /\ pc' = "loop"
                    /\ exc' = exc
    /\ UNCHANGED <<args, csv_list, idx, stock_data_df, run, TIMESTAMP, log, fvars>>

\* app() is run again over the same data root; the clock has not gone back
NewRun ==
    /\ pc \in {"done", "aborted", "crashed"}
    /\ run < MaxRuns
    /\ run' = run + 1
    /\ TIMESTAMP' \in {TIMESTAMP, TIMESTAMP + 1}
    /\ pc' = "start"
    /\ csv_list' = <<>>
    /\ idx' = 0
    /\ stock_data_df' = <<>>
    /\ status' = <<>>
    /\ exc' = ""
    /\ touched' = {}
    /\ log' = <<>>
    /\ UNCHANGED <<args, fs, written, fvars>>

Next ==
    \/ ValidateArguments
    \/ SelectFiles
    \/ LoopNext
    \/ ReadCsv
    \/ CheckSize
    \/ GenerateBasicPrediction
    \/ NewRun

Spec == Init /\ [][Next]_vars

----------------------------------------------------------------------------
(* The functions on their own: one call, its argument drawn from the inputs *)

NoArgs ==
    [input_file_count |-> INPUT_FILE_COUNT_DEFAULT,
     data_directory_path |-> data]

DriverIdle ==
    /\ args = NoArgs
    /\ fs = <<>>
    /\ pc = "idle"
    /\ csv_list = <<>>
    /\ idx = 0
    /\ stock_data_df = <<>>
    /\ status = <<>>
    /\ exc = ""
    /\ run = 0
    /\ TIMESTAMP = 0
    /\ written = {}
    /\ touched = {}
    /\ log = <<>>

InitPredict ==
    /\ DriverIdle
    /\ call \in {[fn |-> "predict", arg |-> w] : w \in PredictInputs}
    /\ ret = Pending

CallPredict ==
    /\ call.fn = "predict"
    /\ ret = Pending
    /\ ret' = Returned(predict(call.arg))
    /\ UNCHANGED <<call, dvars>>

SpecPredict == InitPredict /\ [][CallPredict]_vars

InitSample ==
    /\ DriverIdle
    /\ call \in {[fn |-> "sample", arg |-> q] : q \in SampleInputs}
    /\ ret = Pending

CallSample ==
    /\ call.fn = "sample"
    /\ ret = Pending
    /\ IF SubsetPositions(call.arg) = {}
       THEN ret' = Raised("ValueError")
       ELSE \E random_df_position \in SubsetPositions(call.arg) :
                ret' = [state |-> "returned",
                        val |-> extract_stock_data_subset(call.arg,
                                                          random_df_position),
                        pos |-> random_df_position]
    /\ UNCHANGED <<call, dvars>>

SpecSample == InitSample /\ [][CallSample]_vars

InitAssemble ==
    /\ DriverIdle
    /\ call \in {[fn |-> "assemble", arg |-> a] : a \in AssembleInputs}
    /\ ret = Pending

CallAssemble ==
    /\ call.fn = "assemble"
    /\ ret = Pending
    /\ ret' = Returned(prepare_prediction_df(call.arg.window, call.arg.forecast))
    /\ UNCHANGED <<call, dvars>>

SpecAssemble == InitAssemble /\ [][CallAssemble]_vars

InitSelect ==
    /\ DriverIdle
    /\ call \in {[fn |-> "select",
                  arg |-> [paths |-> q, data_directory |-> data,
                           input_file_count |-> c]] :
                    q \in DistinctSeqs(SelectPaths, MaxCsv), c \in {1, 2}}
    /\ ret = Pending

CallSelect ==
    /\ call.fn = "select"
    /\ ret = Pending
    /\ ret' = Returned(_filter_csv_list(call.arg.paths, call.arg.data_directory,
                                        call.arg.input_file_count))
    /\ UNCHANGED <<call, dvars>>

SpecSelect == InitSelect /\ [][CallSelect]_vars

----------------------------------------------------------------------------
(* Claims about the functions on their own *)

Count(w, Test(_)) == Cardinality({i \in 1..Len(w) : Test(w[i])})

\* The second largest value of w, a value that occurs twice counted twice
SecondHighest(w) ==
    CHOOSE v \in Range(w) :
        LET Above(x) == x > v
            AtLeast(x) == x >= v
        IN  Count(w, Above) <= 1 /\ Count(w, AtLeast) >= 2

Maximum(w) == CHOOSE v \in Range(w) : \A x \in Range(w) : x <= v

\* C3 (as claimed): for every series of length L >= 10, L = 10 included,
\* sample returns a window: exactly 10 points, equal to series[s .. s+9] for a
\* start s with s + 10 <= L, in the original order; it never fails.
C3_SampleReturnsWindow ==
    (call.fn = "sample" /\ ret.state # "pending"
        /\ Len(call.arg) >= PREDICTION_DATA_POINTS)
    => /\ ret.state = "returned"
       /\ Len(ret.val) = PREDICTION_DATA_POINTS
       /\ \E start \in 0..(Len(call.arg) - PREDICTION_DATA_POINTS) :
              ret.val = [i \in 1..PREDICTION_DATA_POINTS |-> call.arg[start + i]]

\* C9 (as claimed): for every series of length L >= 10 the start indices that
\* sample can choose are exactly 0 .. L - 10: the start L - 10 (the window of
\* the last 10 points) is a possible outcome, and no index outside the range is.
C9_StartIndexRange ==
    /\ (call.fn = "sample" /\ ret.state = "pending"
           /\ Len(call.arg) >= PREDICTION_DATA_POINTS)
       => ENABLED (CallSample /\ ret'.state = "returned"
                      /\ ret'.pos = Len(call.arg) - PREDICTION_DATA_POINTS)
    /\ (call.fn = "sample" /\ ret.state = "returned")
       => ret.pos \in 0..(Len(call.arg) - PREDICTION_DATA_POINTS)

\* C4: for every 10-value window, predict returns exactly 3 values
\* [p1, p2, p3]: p1 is the second highest value of the window (the maximum
\* when the maximum occurs more than once), p2 = p1 + (p1 - last)/2 and
\* p3 = p2 + (p2 - p1)/4, last being the 10th value; [1..10] gives
\* [9, 8.5, 8.375] and [10,12,11,13,9,14,15,8,20,18] gives [18, 18, 18].
C4_PredictFormula ==
    (call.fn = "predict" /\ ret.state = "returned")
    => LET w == call.arg
           last == w[PREDICTION_DATA_POINTS]
           p == ret.val
           IsMax(x) == x = Maximum(w)
       IN  /\ Len(p) = ForecastLen
           /\ p[1] = SecondHighest(w)
           /\ 2 * (p[2] - p[1]) = p[1] - last
           /\ 4 * (p[3] - p[2]) = p[2] - p[1]
           /\ Count(w, IsMax) > 1 => p[1] = Maximum(w)
           /\ w = Scaled(ScenarioRamp)
                  => /\ 1 * p[1] = 9 * ValueScale
                     /\ 2 * p[2] = 17 * ValueScale
                     /\ 8 * p[3] = 67 * ValueScale
           /\ w = Scaled(ScenarioTies) => p = <<Price(18), Price(18), Price(18)>>

\* C4 witness: a window whose maximum occurs twice has been extrapolated
C4_Witness ==
    /\ call.fn = "predict"
    /\ ret.state = "returned"
    /\ call.arg = Scaled(ScenarioTwoMax)
    /\ ret.val[1] = Price(7)
    /\ ret.val[2] > ret.val[1]

\* A candidate of _filter_csv_list: data/<exchange>/<file name>, the name
\* without the marker of an output file
IsCandidate(csv) ==
    /\ Len(csv) >= 5
    /\ SubSeq(csv, 1, 2) = data
    /\ csv[3] # sep
    /\ csv[4] = sep
    /\ \A i \in 5..Len(csv) : csv[i] # sep /\ csv[i] # "Prediction_"

ExchangeOf(csv) == csv[3]

CandidatesOf(paths, e) ==
    LET InE(csv) == IsCandidate(csv) /\ ExchangeOf(csv) = e
    IN  SelectSeq(paths, InE)

\* C5: for every list of files and cap in {1, 2}, each exchange contributes
\* exactly min(cap, n) files, n its number of candidates, and those are its
\* first min(cap, n) candidates in enumeration order; an exchange with fewer
\* candidates than the cap contributes all of them.
C5_PerExchangeCap ==
    (call.fn = "select" /\ ret.state = "returned")
    => LET paths == call.arg.paths
           cap == call.arg.input_file_count
           sel == ret.val
       IN  /\ \A i \in 1..Len(sel) : IsCandidate(sel[i])
           /\ \A e \in {"A", "B", "data", "old"} :
                  LET n == Len(CandidatesOf(paths, e))
                      InE(csv) == ExchangeOf(csv) = e
                      chosen == SelectSeq(sel, InE)
                  IN  /\ Len(chosen) = Min(cap, n)
                      /\ chosen = SubSeq(CandidatesOf(paths, e), 1, Min(cap, n))

\* C5 witness: exchange A with 3 files and B with 1 file, cap 2: 2 from A, 1 from B
C5_Witness ==
    /\ call.fn = "select"
    /\ ret.state = "returned"
    /\ call.arg.input_file_count = 2
    /\ Len(CandidatesOf(call.arg.paths, "A")) = 3
    /\ Len(CandidatesOf(call.arg.paths, "B")) = 1
    /\ Len(CandidatesOf(ret.val, "A")) = 2
    /\ Len(CandidatesOf(ret.val, "B")) = 1

\* C7: assemble on a 10-point window and a 3-value forecast returns exactly 13
\* records: the 10 window rows unchanged and in their order, then the 3
\* forecast rows in forecast order, each with the window's ticker; nothing is
\* reordered, dropped or deduplicated.
C7_AssembleRecords ==
    (call.fn = "assemble" /\ ret.state = "returned")
    => LET window == call.arg.window
           forecast == call.arg.forecast
           out == ret.val
       IN  /\ Len(out) = PREDICTION_DATA_POINTS + ForecastLen
           /\ \A i \in 1..PREDICTION_DATA_POINTS : out[i] = window[i]
           /\ \A k \in 1..ForecastLen :
                  /\ out[PREDICTION_DATA_POINTS + k].Ticker = window[1].Ticker
                  /\ out[PREDICTION_DATA_POINTS + k].Value = forecast[k]

\* C7 witness: a window of ten equal rows and a forecast of three equal values
\* has been assembled
C7_Witness ==
    /\ call.fn = "assemble"
    /\ ret.state = "returned"
    /\ call.arg.window[1] = call.arg.window[PREDICTION_DATA_POINTS]
    /\ call.arg.forecast[1] = call.arg.forecast[ForecastLen]
    /\ Len(ret.val) = PREDICTION_DATA_POINTS + ForecastLen

\* The day after a day of the calendar, field by field
NextDay(ts) ==
    LET leap == (ts.y % 4 = 0 /\ ts.y % 100 # 0) \/ ts.y % 400 = 0
        length == CASE ts.m \in {4, 6, 9, 11} -> 30
                    [] ts.m = 2 -> IF leap THEN 29 ELSE 28
                    [] OTHER -> 31
    IN  IF ts.d < length THEN [d |-> ts.d + 1, m |-> ts.m, y |-> ts.y]
        ELSE IF ts.m < 12 THEN [d |-> 1, m |-> ts.m + 1, y |-> ts.y]
        ELSE [d |-> 1, m |-> 1, y |-> ts.y + 1]

\* C8: the i-th forecast row (i = 1, 2, 3) has the window's last timestamp
\* plus i calendar days: the first is the day after the window's last
\* timestamp and each next one the day after the previous one, also across
\* month and year ends.
C8_ForecastTimestamps ==
    (call.fn = "assemble" /\ ret.state = "returned")
    => LET window == call.arg.window
           out == ret.val
           n == PREDICTION_DATA_POINTS
       IN  /\ out[n + 1].Timestamp = NextDay(window[n].Timestamp)
           /\ \A k \in 2..ForecastLen :
                  out[n + k].Timestamp = NextDay(out[n + k - 1].Timestamp)

\* C8 witness: a window ending on 30 December has been assembled; its
\* forecast runs into the next year
C8_Witness ==
    /\ call.fn = "assemble"
    /\ ret.state = "returned"
    /\ call.arg.window[PREDICTION_DATA_POINTS].Timestamp.d = 30
    /\ call.arg.window[PREDICTION_DATA_POINTS].Timestamp.m = 12
    /\ ret.val[PREDICTION_DATA_POINTS + ForecastLen].Timestamp
           = [d |-> 2, m |-> 1,
              y |-> call.arg.window[1].Timestamp.y + 1]

----------------------------------------------------------------------------
(* Claims about app() *)

\* The terminal states of a file in the per-file state machine
Terminal == {"Persisted", "Skipped", "Failed"}

RunEnded == pc \in {"done", "aborted", "crashed"}

RowsOf(path) == fs[FileAt(fs, path)].rows

\* C1 (as claimed): if processing of one selected file fails, every selected
\* file after it is still processed and reaches a terminal state; a per-file
\* error never halts the batch. Stated of a run that has ended: no selected
\* file after the one in hand is left short of a terminal state.
C1_FailureIsolated ==
    RunEnded => \A i \in (idx + 1)..Len(csv_list) : status[i] \in Terminal

\* app() is through with file i of csv_list
Handled(i) == i < idx \/ (i = idx /\ pc \in {"loop", "done", "crashed"})

\* C2 (as claimed): a selected file with fewer than 10 rows is marked Skipped
\* once its error is logged: it yields no window, no forecast and no output
\* record set, and the run goes on.
C2_ShortFileSkipped ==
    \A i \in 1..Len(csv_list) :
        (Handled(i) /\ Len(RowsOf(csv_list[i])) < PREDICTION_DATA_POINTS)
        => /\ status[i] = "Skipped"
           /\ ~(pc = "crashed" /\ i = idx)
           /\ bp_csv_path(csv_list[i], TIMESTAMP) \notin written

\* The directory that the run would enumerate exists; "" names the working
\* directory
RootExists(d) ==
    \/ d = <<>>
    \/ d = data
    \/ \E i \in 1..Len(fs) : IsPrefix(d, fs[i].path)

InvalidConfig ==
    \/ args.input_file_count \notin {1, 2}
    \/ ~RootExists(args.data_directory_path)

\* C6: when per_exchange_cap is not 1 or 2, or the data root directory does
\* not exist, app() ends the run with an InvalidConfig error and no file is
\* enumerated, read, sampled or written.
C6_InvalidConfigAborts ==
    InvalidConfig
    => /\ pc \in {"start", "aborted"}
       /\ touched = {}
       /\ csv_list = <<>>
       /\ written = {}
       /\ pc = "aborted"
              => /\ exc = ""
                 /\ log \in {<<"Invalid file count">>, <<"Data directory not found">>}

\* C6 witness: a run over a data root that does not exist, with a valid cap
\* and files elsewhere, has been aborted
C6_Witness ==
    /\ pc = "aborted"
    /\ args.input_file_count = 2
    /\ args.data_directory_path = missing
    /\ Len(fs) = MaxFiles
    /\ log = <<"Data directory not found">>

\* C10: across runs over the same data root, no file written by the pipeline
\* is selected by a later run, and the selection is the one made without the
\* written files: they are excluded before the per-exchange cap is applied.
C10_OutputNeverSelected ==
    pc \in {"loop", "read", "check", "predict", "done", "crashed"}
    => LET NotWritten(f) == f.path \notin written
       IN  /\ \A i \in 1..Len(csv_list) : csv_list[i] \notin written
           /\ csv_list =
                  _filter_csv_list(
                      _read_csv_files_from_data(SelectSeq(fs, NotWritten),
                                                args.data_directory_path),
                      args.data_directory_path, args.input_file_count)

\* C10 witness: a second run with cap 1 has persisted the file of an exchange
\* whose first enumerated file is an output of the first run
C10_Witness ==
    /\ run = 2
    /\ pc = "done"
    /\ args.input_file_count = 1
    /\ Len(csv_list) = 1
    /\ status[1] = "Persisted"
    /\ fs[1].path \in written
    /\ fs[1].path # bp_csv_path(csv_list[1], TIMESTAMP)
    /\ SubSeq(fs[1].path, 1, 4) = SubSeq(csv_list[1], 1, 4)

============================================================================
